---- MODULE Spec2Model ----
(***************************************************************************)
(* GoTodo: bearer-token authentication (internal/data tokens, the          *)
(* protectedRouteMiddleware of cmd/api) and the todo handlers with their   *)
(* storage layer (cmd/api/todos.go, internal/data/todos.go).               *)
(*                                                                         *)
(* Strings that the code takes apart (the Authorization header) are        *)
(* sequences of atoms: an atom is a run of characters without a space, or  *)
(* the single space SP.  The PostgreSQL tables are sets of rows.  The      *)
(* clock is the integer `now`.                                             *)
(***************************************************************************)
EXTENDS Integers, Sequences, FiniteSets, TLC

VARIABLES
    now,        \* time.Now(), in whole ticks
    tokens,     \* table tokens: rows (hash, user_id, expiry, scope)
    issued,     \* history: the calls of New that generated a token, (token, ttl, err)
    todos,      \* table todos
    nextId,     \* the bigserial sequence of todos.id
    inflight,   \* requests that are between two storage calls
    last        \* what the step just taken returned (Idle after a clock tick)

vars == <<now, tokens, issued, todos, nextId, inflight, last>>

authVars == <<tokens, issued>>
todoVars == <<todos, nextId, inflight>>

-----------------------------------------------------------------------------
(* Bounds *)

MaxTime == 2          \* the clock runs 0..MaxTime
MaxTTL == 1           \* ttl of an issued token: 0..MaxTTL
MaxHeaderLen == 3     \* atoms in an Authorization header
MaxTodos == 2         \* todos ever created
MaxInflight == 1      \* requests between their two statements
MaxSample == 3        \* small page numbers and page sizes: -1..MaxSample
MaxRecords == 25      \* totalRecords handed to calculateMetadata: 0..MaxRecords
TicksPerSecond == 2   \* resolution of a due date: ticks in one second
MaxUpdates == 2       \* update requests between their read and their write
MaxRaceTodos == 1     \* todos the racing requests work on
MaxPageTodos == 3     \* todos stored when the pages of a listing are compared

-----------------------------------------------------------------------------
(* Values *)

\* rows of the users table (UsersModel is filled by POST /v1/users)
UserIds == {1, 2}
User(id) == [Id |-> id]

ScopeAuthentication == "Authentication"
Scopes == {ScopeAuthentication, "PasswordReset"}

SP == " "
BearerWord == "Bearer"
\* the base32 strings rand.Read can yield, as atoms
TokenAtoms == {"T1", "T2"}
\* the atoms of the Authorization headers sent: the space, the scheme and a token
\* string, which New may never issue, or issue to either user
HeaderAtoms == {SP, BearerWord, "T1"}

RECURSIVE SeqsUpTo(_, _)
SeqsUpTo(S, n) ==
    IF n = 0 THEN {<<>>}
    ELSE LET shorter == SeqsUpTo(S, n - 1)
         IN shorter \cup {Append(s, a) : s \in {t \in shorter : Len(t) = n - 1}, a \in S}

Headers == SeqsUpTo(HeaderAtoms, MaxHeaderLen)
TTLs == 0..MaxTTL

\* error values
ErrNil == "nil"
ErrRecordNotFound == "record not found"
ErrEditConflict == "edit conflict"
ErrBackend == "backend error"      \* any other error of the driver

NoUser == [Id |-> 0]
NoToken == [Plaintext |-> <<>>, Hash |-> <<>>, UserID |-> 0, Expiry |-> 0, Scope |-> ""]
Idle == [op |-> "none"]

-----------------------------------------------------------------------------
(* validator.Validator: a map from field to the first message recorded *)

ValidatorNew == [k \in {} |-> ""]

Valid(v) == DOMAIN v = {}

\* mutant: the last message recorded for a key replaces the first
AddError_Overwrite(v, key, message) ==
    [k \in (DOMAIN v) \cup {key} |-> IF k = key THEN message ELSE v[k]]

AddError(v, key, message) ==
    IF key \in DOMAIN v THEN v
    ELSE [k \in (DOMAIN v) \cup {key} |-> IF k = key THEN message ELSE v[k]]

Check(v, ok, key, message) == IF ~ok THEN AddError(v, key, message) ELSE v

-----------------------------------------------------------------------------
(* Responses of cmd/api/errors.go *)

InvalidAuthenticationHeaderResponse ==
    [status |-> 401, body |-> "InvalidAuthenticationHeader"]

ServerErrorResponse ==
    [status |-> 500,
     body |-> "the server encountered a problem and could not process your request"]

NotFoundResponse ==
    [status |-> 404, body |-> "the requested resource could not be found"]

NoResponse == [status |-> 0, body |-> ""]

-----------------------------------------------------------------------------
(* Tokens: internal/data/tokens.go *)

\* sha256.Sum256: one-way and, by assumption, free of collisions
Sha256(s) == <<"sha256", s>>

\* mutant: the empty token passes the validation
ValidateTokenPlainText_Accepting(v, tokenPlaintext) == v

ValidateTokenPlainText(v, tokenPlaintext) ==
    Check(v, tokenPlaintext # <<>>, "token", "must be provided")

\* generateToken with the 16 random bytes that encode to `atom`
generateToken(userID, ttl, scope, atom) ==
    [Plaintext |-> <<atom>>,
     Hash |-> Sha256(<<atom>>),
     UserID |-> userID,
     Expiry |-> now + ttl,
     Scope |-> scope]

\* mutant: the INSERT binds the plaintext where the hash belongs
TokenRow_Plaintext(token) ==
    [hash |-> token.Plaintext, user_id |-> token.UserID,
     expiry |-> token.Expiry, scope |-> token.Scope]

\* the row TokensModel.Insert writes
TokenRow(token) ==
    [hash |-> token.Hash, user_id |-> token.UserID,
     expiry |-> token.Expiry, scope |-> token.Scope]

\* mutant: the query without `AND tokens.expiry > $2`
GetForTokenRows_NoExpiry(tokenPlaintext, at) ==
    {User(u) : u \in {id \in UserIds :
        \E t \in tokens : /\ id = t.user_id
                          /\ t.hash = Sha256(tokenPlaintext)}}

\* mutant: the query without `WHERE tokens.hash = $1`
GetForTokenRows_AnyHash(tokenPlaintext, at) ==
    {User(u) : u \in {id \in UserIds :
        \E t \in tokens : /\ id = t.user_id
                          /\ t.expiry > at}}

\* mutant: the query with a condition on the scope
GetForTokenRows_AuthenticationOnly(tokenPlaintext, at) ==
    {User(u) : u \in {id \in UserIds :
        \E t \in tokens : /\ id = t.user_id
                          /\ t.hash = Sha256(tokenPlaintext)
                          /\ t.expiry > at
                          /\ t.scope = ScopeAuthentication}}

\* the rows the query of GetForToken selects at time `at`
GetForTokenRows(tokenPlaintext, at) ==
    {User(u) : u \in {id \in UserIds :
        \E t \in tokens : /\ id = t.user_id
                          /\ t.hash = Sha256(tokenPlaintext)
                          /\ t.expiry > at}}

\* what GetForToken can return, (user, err): the driver fails (a timeout, a lost
\* connection), or Scan finds no row (ErrNoRows), or it scans the row found
GetForToken(tokenPlaintext) ==
    {[user |-> NoUser, err |-> ErrBackend]} \cup
    (IF GetForTokenRows(tokenPlaintext, now) = {}
     THEN {[user |-> NoUser, err |-> ErrRecordNotFound]}
     ELSE {[user |-> u, err |-> ErrNil] : u \in GetForTokenRows(tokenPlaintext, now)})

\* mutant: the new token takes the place of the owner's earlier tokens
InsertToken_Superseding(rows, token) ==
    {r \in rows : r.user_id # token.UserID} \cup {TokenRow(token)}

\* the table after the INSERT of TokensModel.Insert
InsertToken(rows, token) == rows \cup {TokenRow(token)}

\* 128 random bits do not repeat: rand.Read yields an atom not generated before
FreshAtoms == TokenAtoms \ {i.token.Plaintext[1] : i \in issued}

\* mutant: the row is stored although the INSERT reports a failure
New_RowKept(userID, ttl, scope, rndOk, dbOk) ==
    /\ FreshAtoms # {}
    /\ \E atom \in FreshAtoms :
          LET token == generateToken(userID, ttl, scope, atom) IN
          IF ~rndOk
          THEN /\ UNCHANGED <<tokens, issued>>
               /\ last' = [op |-> "New", ttl |-> ttl, token |-> NoToken, err |-> ErrBackend]
          ELSE /\ tokens' = InsertToken(tokens, token)
               /\ issued' = issued \cup {[token |-> token, ttl |-> ttl,
                                            err |-> IF dbOk THEN ErrNil ELSE ErrBackend]}
               /\ last' = [op |-> "New", ttl |-> ttl, token |-> token,
                           err |-> IF dbOk THEN ErrNil ELSE ErrBackend]
    /\ UNCHANGED <<now, todoVars>>

\* TokensModel.New(userID, ttl, scope); rndOk, dbOk: rand.Read and the INSERT succeed
New(userID, ttl, scope, rndOk, dbOk) ==
    /\ FreshAtoms # {}
    /\ \E atom \in FreshAtoms :
          LET token == generateToken(userID, ttl, scope, atom) IN
          IF ~rndOk
          THEN /\ UNCHANGED <<tokens, issued>>
               /\ last' = [op |-> "New", ttl |-> ttl, token |-> NoToken, err |-> ErrBackend]
          ELSE /\ tokens' = IF dbOk THEN InsertToken(tokens, token) ELSE tokens
               /\ issued' = issued \cup {[token |-> token, ttl |-> ttl,
                                            err |-> IF dbOk THEN ErrNil ELSE ErrBackend]}
               /\ last' = [op |-> "New", ttl |-> ttl, token |-> token,
                           err |-> IF dbOk THEN ErrNil ELSE ErrBackend]
    /\ UNCHANGED <<now, todoVars>>

\* a call of TokensModel.GetForToken
VerifyToken(tokenPlaintext) ==
    /\ \E r \in GetForToken(tokenPlaintext) :
          last' = [op |-> "GetForToken", plaintext |-> tokenPlaintext, at |-> now,
                   user |-> r.user, err |-> r.err]
    /\ UNCHANGED <<now, authVars, todoVars>>

Tick ==
    /\ now < MaxTime
    /\ now' = now + 1
    /\ last' = Idle
    /\ UNCHANGED <<authVars, todoVars>>

-----------------------------------------------------------------------------
(* Auth middleware: cmd/api/middleware.go *)

\* strings.Split(h, " ")
RECURSIVE Split(_)
Split(h) ==
    IF h = <<>> THEN << <<>> >>
    ELSE IF Head(h) = SP THEN << <<>> >> \o Split(Tail(h))
    ELSE LET rest == Split(Tail(h))
         IN << <<Head(h)>> \o Head(rest) >> \o Tail(rest)

NoLookup == [user |-> NoUser, err |-> "not called"]

\* mutant: any scheme is taken for Bearer
MalformedHeader_AnyScheme(headerParts) == Len(headerParts) # 2

\* the test on the parts of the header
MalformedHeader(headerParts) ==
    Len(headerParts) # 2 \/ headerParts[1] # <<BearerWord>>

\* mutant: every failure of the lookup is taken for a server error
AuthFailureResponse_ServerError(err) == ServerErrorResponse

\* the switch on the error of GetForToken
AuthFailureResponse(err) ==
    IF err = ErrRecordNotFound THEN InvalidAuthenticationHeaderResponse
    ELSE ServerErrorResponse

\* mutant: the rejection is written and the `return` after it is missing
Rejected_NoReturn(h, response, lookups, lookup) ==
    [op |-> "protectedRouteMiddleware", header |-> h, vary |-> "Authorization",
     response |-> response, lookups |-> lookups, lookup |-> lookup,
     nextCalled |-> TRUE, ctxUser |-> NoUser]

\* a rejection: the response is written and next is not called
Rejected(h, response, lookups, lookup) ==
    [op |-> "protectedRouteMiddleware", header |-> h, vary |-> "Authorization",
     response |-> response, lookups |-> lookups, lookup |-> lookup,
     nextCalled |-> FALSE, ctxUser |-> NoUser]

\* contextSetUser and next.ServeHTTP
Forwarded(h, lookup) ==
    [op |-> "protectedRouteMiddleware", header |-> h, vary |-> "Authorization",
     response |-> NoResponse, lookups |-> 1, lookup |-> lookup,
     nextCalled |-> TRUE, ctxUser |-> lookup.user]

\* the ways the middleware can end for a header
MiddlewareOutcomes(authorizationHeader) ==
    LET headerParts == Split(authorizationHeader) IN
    IF authorizationHeader = <<>>
    THEN {Rejected(authorizationHeader, InvalidAuthenticationHeaderResponse, 0, NoLookup)}
    ELSE IF MalformedHeader(headerParts)
    THEN {Rejected(authorizationHeader, InvalidAuthenticationHeaderResponse, 0, NoLookup)}
    ELSE LET token == headerParts[2]
             v == ValidateTokenPlainText(ValidatorNew, token) IN
         IF ~Valid(v)
         THEN {Rejected(authorizationHeader, InvalidAuthenticationHeaderResponse, 0, NoLookup)}
         ELSE {IF r.err # ErrNil
               THEN Rejected(authorizationHeader, AuthFailureResponse(r.err), 1, r)
               ELSE Forwarded(authorizationHeader, r) : r \in GetForToken(token)}

protectedRouteMiddleware(authorizationHeader) ==
    /\ \E outcome \in MiddlewareOutcomes(authorizationHeader) : last' = outcome
    /\ UNCHANGED <<now, authVars, todoVars>>

-----------------------------------------------------------------------------
(* Routes: cmd/api/routes.go *)

Route(method, path, handler, protected) ==
    [method |-> method, path |-> path, handler |-> handler, protected |-> protected]

\* mutant: the todo handlers registered without the middleware
Routes_Unprotected ==
    {Route("GET", "/v1/healthcheck", "healthcheckHandler", FALSE),
     Route("POST", "/v1/todos", "createTodoHandler", FALSE),
     Route("GET", "/v1/todos", "listTodosHandler", FALSE),
     Route("DELETE", "/v1/todos/:id", "deleteTodoHandler", FALSE),
     Route("PUT", "/v1/todos/:id", "updateTodoHandler", FALSE),
     Route("POST", "/v1/users", "createUserHandler", FALSE),
     Route("POST", "/v1/auth/sign-in", "createAuthenticationTokenHandler", FALSE)}

\* the routes registered; protected: the handler is wrapped in
\* protectedRouteMiddleware
Routes ==
    {Route("GET", "/v1/healthcheck", "healthcheckHandler", FALSE),
     Route("POST", "/v1/todos", "createTodoHandler", TRUE),
     Route("GET", "/v1/todos", "listTodosHandler", TRUE),
     Route("DELETE", "/v1/todos/:id", "deleteTodoHandler", TRUE),
     Route("PUT", "/v1/todos/:id", "updateTodoHandler", TRUE),
     Route("POST", "/v1/users", "createUserHandler", FALSE),
     Route("POST", "/v1/auth/sign-in", "createAuthenticationTokenHandler", FALSE)}

\* the handler the router picks: router.NotFound for an unknown path,
\* router.MethodNotAllowed for a known path under another method
Dispatch(method, path) ==
    LET hit == {rt \in Routes : rt.method = method /\ rt.path = path} IN
    IF hit # {} THEN CHOOSE rt \in hit : TRUE
    ELSE IF \E rt \in Routes : rt.path = path
    THEN Route(method, path, "methodNotAllowedResponse", FALSE)
    ELSE Route(method, path, "notFoundResponse", FALSE)

\* the router serving a request: which handler ran, and for which user
ServeHTTP(method, path, authorizationHeader) ==
    LET rt == Dispatch(method, path)
        served(ran, user) ==
            [op |-> "ServeHTTP", method |-> method, path |-> path,
             header |-> authorizationHeader, ran |-> ran, user |-> user]
    IN /\ IF rt.protected
          THEN \E outcome \in MiddlewareOutcomes(authorizationHeader) :
                  last' = served(IF outcome.nextCalled THEN rt.handler ELSE "none",
                                 outcome.ctxUser)
          ELSE last' = served(rt.handler, NoUser)
       /\ UNCHANGED <<now, authVars, todoVars>>

-----------------------------------------------------------------------------
(* Todos: values *)

MaxTitleLen == 500

\* a string of the request: its length in runes and in bytes, and the lexemes
\* to_tsvector('simple', ...) finds in it
EmptyText == [runes |-> 0, bytes |-> 0, words |-> {}]
TitleA == [runes |-> 1, bytes |-> 1, words |-> {"a"}]
TitleB == [runes |-> 1, bytes |-> 1, words |-> {"b"}]
\* MaxTitleLen two-byte characters
TitleWide == [runes |-> MaxTitleLen, bytes |-> 2 * MaxTitleLen, words |-> {"a", "b"}]
TitleLong == [runes |-> MaxTitleLen + 1, bytes |-> MaxTitleLen + 1, words |-> {"a"}]
DescB == [runes |-> 1, bytes |-> 1, words |-> {"b"}]
\* a search text of white space only: not '', and without a lexeme
BlankText == [runes |-> 1, bytes |-> 1, words |-> {}]

\* a pointer field of a JSON body: {} is nil, {x} points to x
Nil == {}
Ptr(x) == {x}
Deref(p) == CHOOSE x \in p : TRUE

\* a raw path or query parameter
QEmpty == [kind |-> "empty", val |-> 0]
QInt(n) == [kind |-> "int", val |-> n]
QText == [kind |-> "text", val |-> 0]      \* not a number

NoTodo == [ID |-> 0, CreatedAt |-> 0, Title |-> EmptyText, Description |-> EmptyText,
           DueDate |-> 0, IsCompleted |-> FALSE]

\* the Todo struct scanned from a row
TodoOf(row) ==
    [ID |-> row.id, CreatedAt |-> row.created_at, Title |-> row.title,
     Description |-> row.description, DueDate |-> row.due_date,
     IsCompleted |-> row.is_completed]

-----------------------------------------------------------------------------
(* Responses of the todo handlers *)

FailedValidationResponse(errors) == [status |-> 422, body |-> errors]
BadRequestResponse == [status |-> 400, body |-> "bad request"]
EditConflictResponse == [status |-> 409, body |-> "edit conflict"]
CreatedResponse(todo) == [status |-> 201, body |-> [todo |-> todo]]
UpdatedResponse(todo) == [status |-> 200, body |-> [todo |-> todo]]
DeletedResponse == [status |-> 200, body |-> [message |-> "todo deleted successfuly"]]

\* net/http sends the first status written; later WriteHeader calls are ignored
Sent(writes) == IF writes = <<>> THEN NoResponse ELSE Head(writes)

-----------------------------------------------------------------------------
(* TodosModel with the owner in every statement: internal/data/todos.go as of
   the version that takes userId *)

\* a due date is a number of ticks; the column due_date is declared
\* timestamp(0) with time zone, and PostgreSQL rounds a value stored in it to
\* the nearest whole second (t >= 0)
Timestamp0(t) == ((t + TicksPerSecond \div 2) \div TicksPerSecond) * TicksPerSecond

\* the row of INSERT ... RETURNING id, created_at
InsertRow(userId, todo) ==
    [id |-> nextId, created_at |-> now, title |-> todo.Title,
     description |-> todo.Description, due_date |-> Timestamp0(todo.DueDate),
     is_completed |-> todo.IsCompleted, user_id |-> userId]

\* TodosModel.Insert(userId, todo): (todo, err, table)
Insert(userId, todo, dbOk) ==
    IF ~dbOk THEN [todo |-> todo, err |-> ErrBackend, todos |-> todos]
    ELSE [todo |-> [todo EXCEPT !.ID = InsertRow(userId, todo).id,
                                !.CreatedAt = InsertRow(userId, todo).created_at],
          err |-> ErrNil,
          todos |-> todos \cup {InsertRow(userId, todo)}]

\* TodosModel.Get(id, userId): (todo, err)
Get(id, userId, dbOk) ==
    LET hit == {r \in todos : r.id = id /\ r.user_id = userId} IN
    IF id < 1 THEN [todo |-> NoTodo, err |-> ErrRecordNotFound]
    ELSE IF ~dbOk THEN [todo |-> NoTodo, err |-> ErrBackend]
    ELSE IF hit = {} THEN [todo |-> NoTodo, err |-> ErrRecordNotFound]
    ELSE [todo |-> TodoOf(CHOOSE r \in hit : TRUE), err |-> ErrNil]

\* TodosModel.Delete(id, userId): (err, table)
Delete(id, userId, dbOk) ==
    LET hit == {r \in todos : r.id = id /\ r.user_id = userId} IN
    IF id < 1 THEN [err |-> ErrRecordNotFound, todos |-> todos]
    ELSE IF ~dbOk THEN [err |-> ErrBackend, todos |-> todos]
    ELSE IF hit = {} THEN [err |-> ErrRecordNotFound, todos |-> todos]
    ELSE [err |-> ErrNil, todos |-> todos \ hit]

\* mutant: only the title is set
Written_TitleOnly(r, todo) == [r EXCEPT !.title = todo.Title]

\* the row after SET title = $1, description = $2, due_date = $3, is_completed = $4
Written(r, todo) ==
    [r EXCEPT !.title = todo.Title, !.description = todo.Description,
              !.due_date = Timestamp0(todo.DueDate),
              !.is_completed = todo.IsCompleted]

\* mutant: the statement without `AND user_id = $6`
UpdateHit_AnyOwner(userId, todo) == {r \in todos : r.id = todo.ID}

\* the rows of UPDATE ... WHERE id = $5 AND user_id = $6
UpdateHit(userId, todo) == {r \in todos : r.id = todo.ID /\ r.user_id = userId}

\* TodosModel.Update(userId, todo): (err, table)
Update(userId, todo, dbOk) ==
    LET hit == UpdateHit(userId, todo) IN
    IF ~dbOk THEN [err |-> ErrBackend, todos |-> todos]
    ELSE IF hit = {} THEN [err |-> ErrEditConflict, todos |-> todos]
    ELSE [err |-> ErrNil, todos |-> (todos \ hit) \cup {Written(r, todo) : r \in hit}]

-----------------------------------------------------------------------------
(* TodosModel without the owner: src/internal/data/todos.go, the methods the
   delete and update handlers call *)

\* TodosModel.Get(id): (todo, err)
GetAnyOwner(id, dbOk) ==
    LET hit == {r \in todos : r.id = id} IN
    IF id < 1 THEN [todo |-> NoTodo, err |-> ErrRecordNotFound]
    ELSE IF ~dbOk THEN [todo |-> NoTodo, err |-> ErrBackend]
    ELSE IF hit = {} THEN [todo |-> NoTodo, err |-> ErrRecordNotFound]
    ELSE [todo |-> TodoOf(CHOOSE r \in hit : TRUE), err |-> ErrNil]

\* TodosModel.Delete(id): (err, table)
DeleteAnyOwner(id, dbOk) ==
    LET hit == {r \in todos : r.id = id} IN
    IF id < 1 THEN [err |-> ErrRecordNotFound, todos |-> todos]
    ELSE IF ~dbOk THEN [err |-> ErrBackend, todos |-> todos]
    ELSE IF hit = {} THEN [err |-> ErrRecordNotFound, todos |-> todos]
    ELSE [err |-> ErrNil, todos |-> todos \ hit]

\* mutant: no row is reported as a record not found
UpdateAnyOwner_NotFound(todo, dbOk) ==
    LET hit == {r \in todos : r.id = todo.ID} IN
    IF ~dbOk THEN [err |-> ErrBackend, todos |-> todos]
    ELSE IF hit = {} THEN [err |-> ErrRecordNotFound, todos |-> todos]
    ELSE [err |-> ErrNil, todos |-> (todos \ hit) \cup {Written(r, todo) : r \in hit}]

\* TodosModel.Update(todo): (err, table)
UpdateAnyOwner(todo, dbOk) ==
    LET hit == {r \in todos : r.id = todo.ID} IN
    IF ~dbOk THEN [err |-> ErrBackend, todos |-> todos]
    ELSE IF hit = {} THEN [err |-> ErrEditConflict, todos |-> todos]
    ELSE [err |-> ErrNil, todos |-> (todos \ hit) \cup {Written(r, todo) : r \in hit}]

\* ValidateTodo: len(todo.Title) counts bytes
ValidateTodo(v, todo) ==
    Check(Check(v, todo.Title.bytes # 0, "title", "must be provided"),
          todo.Title.bytes <= MaxTitleLen, "title",
          "must not have more than 500 characters long")

-----------------------------------------------------------------------------
(* Filters: internal/data/filters.go *)

SortSafeList == <<"is_complete", "due_date", "created_at">>
OrderSafeList == <<"asc", "desc">>

\* the columns of the table todos
TodoColumns ==
    {"id", "created_at", "title", "description", "due_date", "is_completed", "user_id"}

MaxPage == 10000000
MaxPageSize == 100
DefaultPage == 1
DefaultPageSize == 10

PanicUnsafeSort == "panic: unsafe sort parameter"

PermittedValue(value, list) == \E i \in 1..Len(list) : list[i] = value

\* Go's integer division truncates toward zero (b # 0)
GoDiv(a, b) ==
    LET abs(x) == IF x < 0 THEN -x ELSE x
        q == abs(a) \div abs(b)
    IN IF (a < 0) = (b < 0) THEN q ELSE -q

\* mutant: the division without rounding up
calculateMetadata_Floor(totalRecords, page, pageSize) ==
    [CurrentPage |-> page,
     PageSize |-> pageSize,
     FirstPage |-> 1,
     LastPage |-> GoDiv(totalRecords, pageSize),
     TotalRecords |-> totalRecords]

calculateMetadata(totalRecords, page, pageSize) ==
    [CurrentPage |-> page,
     PageSize |-> pageSize,
     FirstPage |-> 1,
     LastPage |-> GoDiv(totalRecords + pageSize - 1, pageSize),
     TotalRecords |-> totalRecords]

NoMetadata ==
    [CurrentPage |-> 0, PageSize |-> 0, FirstPage |-> 0, LastPage |-> 0, TotalRecords |-> 0]

\* mutant: a value outside the list is replaced by the default column
sortColumn_Default(f) ==
    IF \E i \in 1..Len(f.SortSafeList) : f.Sort = f.SortSafeList[i] THEN f.Sort
    ELSE "created_at"

\* f.Sort, or the panic
sortColumn(f) ==
    IF \E i \in 1..Len(f.SortSafeList) : f.Sort = f.SortSafeList[i] THEN f.Sort
    ELSE PanicUnsafeSort

sortDirection(f) == IF f.Order = "asc" THEN "ASC" ELSE "DESC"

limit(f) == f.PageSize

\* mutant: pages counted from zero
offset_FromZero(f) == f.Page * f.PageSize

offset(f) == (f.Page - 1) * f.PageSize

\* mutant: the sort value is not checked against the list
ValidateFilters_AnySort(v, f) ==
    LET v1 == Check(v, f.Page > 0, "page", "must be greater than 0")
        v2 == Check(v1, f.Page <= MaxPage, "page", "must be less than ten million")
        v3 == Check(v2, f.PageSize > 0, "page_size", "must be greater than 0")
        v4 == Check(v3, f.PageSize <= MaxPageSize, "page_size", "must be less than a hundred")
    IN Check(v4, PermittedValue(f.Order, f.OrderSafeList), "order", "is an invalid order value")

\* mutant: the checks stop at the first field in error
ValidateFilters_FailFast(v, f) ==
    IF ~(f.Page > 0) THEN AddError(v, "page", "must be greater than 0")
    ELSE IF ~(f.Page <= MaxPage) THEN AddError(v, "page", "must be less than ten million")
    ELSE IF ~(f.PageSize > 0) THEN AddError(v, "page_size", "must be greater than 0")
    ELSE IF ~(f.PageSize <= MaxPageSize)
    THEN AddError(v, "page_size", "must be less than a hundred")
    ELSE IF ~PermittedValue(f.Sort, f.SortSafeList)
    THEN AddError(v, "sort", "is an invalid sort value")
    ELSE Check(v, PermittedValue(f.Order, f.OrderSafeList), "order", "is an invalid order value")

ValidateFilters(v, f) ==
    LET v1 == Check(v, f.Page > 0, "page", "must be greater than 0")
        v2 == Check(v1, f.Page <= MaxPage, "page", "must be less than ten million")
        v3 == Check(v2, f.PageSize > 0, "page_size", "must be greater than 0")
        v4 == Check(v3, f.PageSize <= MaxPageSize, "page_size", "must be less than a hundred")
        v5 == Check(v4, PermittedValue(f.Sort, f.SortSafeList), "sort", "is an invalid sort value")
    IN Check(v5, PermittedValue(f.Order, f.OrderSafeList), "order", "is an invalid order value")

\* readString: the value, or the default for an absent or empty one
readString(s, defaultValue) == IF s = "" THEN defaultValue ELSE s

\* readInt: (value, validator)
readInt(raw, key, defaultValue, v) ==
    IF raw.kind = "empty" THEN [i |-> defaultValue, v |-> v]
    ELSE IF raw.kind = "int" THEN [i |-> raw.val, v |-> v]
    ELSE [i |-> 0, v |-> AddError(v, key, "must be an integer")]

\* readIDParam: (id, err)
readIDParam(raw) ==
    IF raw.kind # "int" \/ raw.val < 1 THEN [id |-> 0, err |-> TRUE]
    ELSE [id |-> raw.val, err |-> FALSE]

-----------------------------------------------------------------------------
(* Calls of the functions of filters.go: the arguments wait in `last` *)

FiltersArg(f) == [op |-> "Filters", filters |-> f]

MetadataArgs(totalRecords, page, pageSize) ==
    [op |-> "Metadata", totalRecords |-> totalRecords, page |-> page,
     pageSize |-> pageSize]

CallValidateFilters ==
    /\ last.op = "Filters"
    /\ last' = [op |-> "ValidateFilters", filters |-> last.filters,
                errors |-> ValidateFilters(ValidatorNew, last.filters)]
    /\ UNCHANGED <<now, authVars, todoVars>>

CallLimitOffset ==
    /\ last.op = "Filters"
    /\ last' = [op |-> "limit/offset", filters |-> last.filters,
                limit |-> limit(last.filters), offset |-> offset(last.filters)]
    /\ UNCHANGED <<now, authVars, todoVars>>

CallCalculateMetadata ==
    /\ last.op = "Metadata"
    /\ last' = [op |-> "calculateMetadata", totalRecords |-> last.totalRecords,
                page |-> last.page, pageSize |-> last.pageSize,
                metadata |-> calculateMetadata(last.totalRecords, last.page,
                                               last.pageSize)]
    /\ UNCHANGED <<now, authVars, todoVars>>

CallSortColumn ==
    /\ last.op = "Filters"
    /\ last' = [op |-> "sortColumn", filters |-> last.filters,
                panicked |-> sortColumn(last.filters) = PanicUnsafeSort,
                column |-> sortColumn(last.filters)]
    /\ UNCHANGED <<now, authVars, todoVars>>

\* the arguments of a call of Validator.Check
CheckArgs(v, ok, key, message) ==
    [op |-> "Validator", v |-> v, ok |-> ok, key |-> key, message |-> message]

\* the query string of a list request
QueryArg(qs) == [op |-> "Query", qs |-> qs]

CallCheck ==
    /\ last.op = "Validator"
    /\ last' = [op |-> "Check", v |-> last.v, ok |-> last.ok, key |-> last.key,
                message |-> last.message,
                added |-> AddError(last.v, last.key, last.message),
                errors |-> Check(last.v, last.ok, last.key, last.message),
                valid |-> Valid(Check(last.v, last.ok, last.key, last.message))]
    /\ UNCHANGED <<now, authVars, todoVars>>

-----------------------------------------------------------------------------
(* TodosModel.GetAll *)

\* to_tsvector('simple', text) @@ plainto_tsquery('simple', search): every
\* lexeme of the search is in the text; a query without lexemes matches nothing
TsMatch(text, search) == search.words # {} /\ search.words \subseteq text.words

\* mutant: the predicate without `user_id = $1`
WhereClause_AnyOwner(r, userId, search) ==
    \/ TsMatch(r.title, search)
    \/ TsMatch(r.description, search)
    \/ search.bytes = 0

\* the WHERE clause of both queries
WhereClause(r, userId, search) ==
    /\ r.user_id = userId
    /\ \/ TsMatch(r.title, search)
       \/ TsMatch(r.description, search)
       \/ search.bytes = 0

\* the value a row is ordered by
SortKey(r, column) ==
    IF column = "due_date" THEN r.due_date
    ELSE IF column = "created_at" THEN r.created_at
    ELSE IF column = "is_completed" THEN (IF r.is_completed THEN 1 ELSE 0)
    ELSE r.id

\* ORDER BY column direction, id ASC
Before(a, b, column, direction) ==
    IF SortKey(a, column) # SortKey(b, column)
    THEN IF direction = "ASC" THEN SortKey(a, column) < SortKey(b, column)
         ELSE SortKey(a, column) > SortKey(b, column)
    ELSE a.id < b.id

RECURSIVE OrderBy(_, _, _)
OrderBy(rows, column, direction) ==
    IF rows = {} THEN <<>>
    ELSE LET first == CHOOSE a \in rows :
                         \A b \in rows \ {a} : Before(a, b, column, direction)
         IN <<first>> \o OrderBy(rows \ {first}, column, direction)

\* LIMIT $3 OFFSET $4
LimitOffset(rows, lim, off) ==
    SubSeq(rows, off + 1, IF off + lim < Len(rows) THEN off + lim ELSE Len(rows))

\* the count query: (totalRecords, err)
GetAllCount(userId, search, dbOk) ==
    IF ~dbOk THEN [totalRecords |-> 0, err |-> ErrBackend]
    ELSE [totalRecords |-> Cardinality({r \in todos : WhereClause(r, userId, search)}),
          err |-> ErrNil]

\* the page query and calculateMetadata: (todos, metadata, err); PostgreSQL
\* rejects an ORDER BY on a column the table does not have
GetAllPage(userId, search, filters, totalRecords, dbOk) ==
    LET column == sortColumn(filters)
        rows == OrderBy({r \in todos : WhereClause(r, userId, search)},
                        column, sortDirection(filters))
        page == LimitOffset(rows, limit(filters), offset(filters))
    IN IF column = PanicUnsafeSort
       THEN [todos |-> <<>>, metadata |-> NoMetadata, err |-> PanicUnsafeSort]
       ELSE IF ~dbOk \/ column \notin TodoColumns
       THEN [todos |-> <<>>, metadata |-> NoMetadata, err |-> ErrBackend]
       ELSE [todos |-> [i \in 1..Len(page) |-> TodoOf(page[i])],
             metadata |-> calculateMetadata(totalRecords, filters.Page, filters.PageSize),
             err |-> ErrNil]

\* TodosModel.GetAll on a table no other request writes meanwhile
GetAll(userId, search, filters, dbOk) ==
    LET count == GetAllCount(userId, search, dbOk)
    IN IF count.err # ErrNil
       THEN [todos |-> <<>>, metadata |-> NoMetadata, err |-> count.err]
       ELSE GetAllPage(userId, search, filters, count.totalRecords, dbOk)

-----------------------------------------------------------------------------
(* Handlers: cmd/api/todos.go.  They run behind protectedRouteMiddleware, *)
(* so `user` is the user the middleware put in the request context.      *)

\* what a finished handler leaves: the response the client receives and every
\* write the handler attempted
Answer(op, user, id, writes) ==
    [op |-> op, user |-> user.Id, id |-> id, response |-> Sent(writes),
     statuses |-> [i \in 1..Len(writes) |-> writes[i].status]]

\* the todo built from the JSON body of a create request
CreateInput(input) ==
    [NoTodo EXCEPT !.Title = input.Title, !.Description = input.Description,
                   !.DueDate = input.DueDate, !.IsCompleted = input.IsCompleted]

\* mutant: the fields absent from the body take their zero values
ApplyInput_ZeroAbsent(todo, input) ==
    [todo EXCEPT
        !.Title = IF input.Title # Nil THEN Deref(input.Title) ELSE EmptyText,
        !.Description = IF input.Description # Nil THEN Deref(input.Description)
                        ELSE EmptyText,
        !.DueDate = IF input.DueDate # Nil THEN Deref(input.DueDate) ELSE 0,
        !.IsCompleted = IF input.IsCompleted # Nil THEN Deref(input.IsCompleted)
                        ELSE FALSE]

\* the body's non-nil fields applied to the fetched todo
ApplyInput(todo, input) ==
    [todo EXCEPT
        !.Title = IF input.Title # Nil THEN Deref(input.Title) ELSE @,
        !.Description = IF input.Description # Nil THEN Deref(input.Description) ELSE @,
        !.DueDate = IF input.DueDate # Nil THEN Deref(input.DueDate) ELSE @,
        !.IsCompleted = IF input.IsCompleted # Nil THEN Deref(input.IsCompleted) ELSE @]

\* the two checks of createTodoHandler
CreateChecks(todo) ==
    Check(Check(ValidatorNew, todo.Title.bytes # 0, "title", "must be provided"),
          todo.Title.runes <= MaxTitleLen, "title",
          "must not be more than 500 characters long")

createTodoHandler(user, input, jsonOk, dbOk) ==
    /\ IF ~jsonOk
       THEN /\ last' = Answer("createTodoHandler", user, 0, <<BadRequestResponse>>)
            /\ UNCHANGED <<todos, nextId>>
       ELSE LET todo == CreateInput(input)
                v == CreateChecks(todo)
                \* failedValidationResponse is not followed by a return
                early == IF ~Valid(v) THEN <<FailedValidationResponse(v)>> ELSE <<>>
                ins == Insert(user.Id, todo, dbOk)
            IN /\ todos' = ins.todos
               /\ nextId' = IF ins.err = ErrNil THEN nextId + 1 ELSE nextId
               /\ last' = Answer("createTodoHandler", user, ins.todo.ID,
                                 early \o <<IF ins.err # ErrNil THEN ServerErrorResponse
                                            ELSE CreatedResponse(ins.todo)>>)
    /\ UNCHANGED <<now, authVars, inflight>>

deleteTodoHandler(user, idParam, dbOk) ==
    LET p == readIDParam(idParam)
        del == DeleteAnyOwner(p.id, dbOk)
    IN /\ IF p.err
          THEN /\ last' = Answer("deleteTodoHandler", user, 0, <<NotFoundResponse>>)
               /\ UNCHANGED todos
          ELSE /\ todos' = del.todos
               /\ last' = Answer("deleteTodoHandler", user, p.id,
                                 <<IF del.err = ErrRecordNotFound THEN NotFoundResponse
                                   ELSE IF del.err # ErrNil THEN ServerErrorResponse
                                   ELSE DeletedResponse>>)
       /\ UNCHANGED <<now, authVars, nextId, inflight>>

\* updateTodoHandler up to the validation: the fetched todo with the body
\* applied waits in the request for the UPDATE statement
updateTodoHandlerGet(user, idParam, input, jsonOk, dbOk) ==
    LET p == readIDParam(idParam)
        got == GetAnyOwner(p.id, dbOk)
        todo == ApplyInput(got.todo, input)
        v == ValidateTodo(ValidatorNew, todo)
        early == IF p.err THEN <<NotFoundResponse>>
                 ELSE IF got.err = ErrRecordNotFound THEN <<NotFoundResponse>>
                 ELSE IF got.err # ErrNil THEN <<ServerErrorResponse>>
                 ELSE IF ~jsonOk THEN <<BadRequestResponse>>
                 ELSE IF ~Valid(v) THEN <<FailedValidationResponse(v)>>
                 ELSE <<>>
    IN /\ IF early # <<>>
          THEN /\ last' = Answer("updateTodoHandler", user, p.id, early)
               /\ UNCHANGED inflight
          ELSE /\ inflight' = inflight \cup
                      {[op |-> "updateTodoHandler", user |-> user, todo |-> todo,
                        input |-> input, fetched |-> got.todo]}
               /\ last' = [op |-> "updateTodoHandler.Get", user |-> user.Id, id |-> p.id]
       /\ UNCHANGED <<now, authVars, todos, nextId>>

\* updateTodoHandler from the UPDATE statement on
updateTodoHandlerUpdate(req, dbOk) ==
    LET upd == UpdateAnyOwner(req.todo, dbOk)
    IN /\ req \in inflight
       /\ req.op = "updateTodoHandler"
       /\ inflight' = inflight \ {req}
       /\ todos' = upd.todos
       /\ last' = Answer("updateTodoHandler", req.user, req.todo.ID,
                         <<IF upd.err = ErrEditConflict THEN EditConflictResponse
                           ELSE IF upd.err # ErrNil THEN ServerErrorResponse
                           ELSE UpdatedResponse(req.todo)>>)
                  @@ [input |-> req.input, fetched |-> req.fetched, todo |-> req.todo,
                      stored |-> {r \in todos : r.id = req.todo.ID}, err |-> upd.err]
       /\ UNCHANGED <<now, authVars, nextId>>

ListResponse(items, metadata) ==
    [status |-> 200, body |-> [todos |-> items, metada |-> metadata]]

\* the Filters listTodosHandler reads from the query string: (filters, validator)
ReadFilters(qs) ==
    LET page == readInt(qs.page, "page", DefaultPage, ValidatorNew)
        pageSize == readInt(qs.page_size, "page_size", DefaultPageSize, page.v)
    IN [filters |-> [Page |-> page.i,
                     PageSize |-> pageSize.i,
                     Sort |-> readString(qs.sort, "created_at"),
                     Order |-> readString(qs.order, "desc"),
                     SortSafeList |-> SortSafeList,
                     OrderSafeList |-> OrderSafeList],
        v |-> pageSize.v]

\* listTodosHandler up to the count query of GetAll; queries: the statements
\* the request has sent to the storage
listTodosHandlerCount(user, qs, dbOk) ==
    LET in == ReadFilters(qs)
        v == ValidateFilters(in.v, in.filters)
        count == GetAllCount(user.Id, qs.search, dbOk)
    IN /\ IF ~Valid(v)
          THEN /\ last' = Answer("listTodosHandler", user, 0, <<FailedValidationResponse(v)>>)
                          @@ [qs |-> qs, filters |-> in.filters, queries |-> 0]
               /\ UNCHANGED inflight
          ELSE IF count.err # ErrNil
          THEN /\ last' = Answer("listTodosHandler", user, 0, <<ServerErrorResponse>>)
                          @@ [qs |-> qs, filters |-> in.filters, queries |-> 1]
               /\ UNCHANGED inflight
          ELSE /\ inflight' = inflight \cup
                      {[op |-> "listTodosHandler", user |-> user, search |-> qs.search,
                        filters |-> in.filters, totalRecords |-> count.totalRecords]}
               /\ last' = [op |-> "listTodosHandler.count", user |-> user.Id,
                           search |-> qs.search, totalRecords |-> count.totalRecords,
                           filters |-> in.filters, queries |-> 1]
       /\ UNCHANGED <<now, authVars, todos, nextId>>

\* listTodosHandler from the page query of GetAll on; a panic ends the
\* connection without a response
listTodosHandlerPage(req, dbOk) ==
    LET res == GetAllPage(req.user.Id, req.search, req.filters, req.totalRecords, dbOk)
    IN /\ req \in inflight
       /\ req.op = "listTodosHandler"
       /\ inflight' = inflight \ {req}
       /\ last' = [Answer("listTodosHandler", req.user, 0,
                          <<IF res.err = PanicUnsafeSort THEN NoResponse
                            ELSE IF res.err # ErrNil THEN ServerErrorResponse
                            ELSE ListResponse(res.todos, res.metadata)>>)
                   EXCEPT !.op = "listTodosHandler.page"]
                  @@ [search |-> req.search, filters |-> req.filters,
                      queries |-> IF res.err = PanicUnsafeSort THEN 1 ELSE 2]
       /\ UNCHANGED <<now, authVars, todos, nextId>>

\* listTodosHandler from the query string to the test of v.Valid()
CallReadFilters ==
    /\ last.op = "Query"
    /\ LET in == ReadFilters(last.qs)
           v == ValidateFilters(in.v, in.filters)
       IN last' = [op |-> "ReadFilters", qs |-> last.qs, filters |-> in.filters,
                   parsed |-> in.v, errors |-> v, valid |-> Valid(v)]
    /\ UNCHANGED <<now, authVars, todoVars>>

-----------------------------------------------------------------------------
(* Calls of the owner-scoped TodosModel *)

TodosInsert(userId, todo, dbOk) ==
    LET ins == Insert(userId, todo, dbOk)
    IN /\ todos' = ins.todos
       /\ nextId' = IF ins.err = ErrNil THEN nextId + 1 ELSE nextId
       /\ last' = [op |-> "Insert", userId |-> userId, todo |-> ins.todo, err |-> ins.err]
       /\ UNCHANGED <<now, authVars, inflight>>

TodosGet(id, userId, dbOk) ==
    LET got == Get(id, userId, dbOk)
    IN /\ last' = [op |-> "Get", userId |-> userId, id |-> id, todo |-> got.todo,
                   err |-> got.err]
       /\ UNCHANGED <<now, authVars, todoVars>>

TodosDelete(id, userId, dbOk) ==
    LET del == Delete(id, userId, dbOk)
    IN /\ todos' = del.todos
       /\ last' = [op |-> "Delete", userId |-> userId, id |-> id, err |-> del.err]
       /\ UNCHANGED <<now, authVars, nextId, inflight>>

TodosUpdate(userId, todo, dbOk) ==
    LET upd == Update(userId, todo, dbOk)
    IN /\ todos' = upd.todos
       /\ last' = [op |-> "Update", userId |-> userId, todo |-> todo, err |-> upd.err]
       /\ UNCHANGED <<now, authVars, nextId, inflight>>

TodosGetAll(userId, search, filters, dbOk) ==
    LET res == GetAll(userId, search, filters, dbOk)
    IN /\ last' = [op |-> "GetAll", userId |-> userId, search |-> search,
                   filters |-> filters, todos |-> res.todos,
                   metadata |-> res.metadata, err |-> res.err]
       /\ UNCHANGED <<now, authVars, todoVars>>

-----------------------------------------------------------------------------
(* Specification of the authentication subsystem *)

Init ==
    /\ now = 0
    /\ tokens = {}
    /\ issued = {}
    /\ todos = {}
    /\ nextId = 1
    /\ inflight = {}
    /\ last = Idle

IssueToken == \E u \in UserIds, ttl \in TTLs, s \in Scopes, rndOk, dbOk \in BOOLEAN :
                 New(u, ttl, s, rndOk, dbOk)

Verify == \E a \in TokenAtoms : VerifyToken(<<a>>)

TokenNext == IssueToken \/ Verify \/ Tick

\* the token store under issuance, verification and the passage of time
TokenSpec == Init /\ [][TokenNext]_vars

\* a sign-in: the token issued for an authenticated user
SignIn == \E u \in UserIds, ttl \in 1..MaxTTL : New(u, ttl, ScopeAuthentication, TRUE, TRUE)

AuthRequest == \E h \in Headers : protectedRouteMiddleware(h)

MiddlewareNext == SignIn \/ AuthRequest \/ Tick

\* requests to a protected route, between sign-ins and the passage of time
MiddlewareSpec == Init /\ [][MiddlewareNext]_vars

-----------------------------------------------------------------------------
(* Specification of the router *)

Methods == {"GET", "POST", "PUT", "DELETE"}

Paths == {rt.path : rt \in Routes} \cup {"/v1/tokens"}

\* Authorization headers: absent, a bearer token, the token without a scheme
RouteHeaders == {<<>>, <<BearerWord, SP, "T1">>, <<"T1">>}

RouteRequest ==
    \E method \in Methods, path \in Paths, h \in RouteHeaders : ServeHTTP(method, path, h)

RouterNext == SignIn \/ RouteRequest \/ Tick

\* requests to every route, between sign-ins and the passage of time
RouterSpec == Init /\ [][RouterNext]_vars

-----------------------------------------------------------------------------
(* Specifications of the todo subsystem *)

Body(title) ==
    [Title |-> title, Description |-> EmptyText, DueDate |-> 0, IsCompleted |-> FALSE]

\* JSON bodies of POST /v1/todos
CreateBodies == {Body(TitleA), Body(EmptyText), Body(TitleLong)}

NoChange == [Title |-> Nil, Description |-> Nil, DueDate |-> Nil, IsCompleted |-> Nil]

\* JSON bodies of PUT /v1/todos/:id
UpdateBodies ==
    {[NoChange EXCEPT !.Title = Ptr(TitleB)],
     [NoChange EXCEPT !.Title = Ptr(EmptyText), !.IsCompleted = Ptr(TRUE)]}

\* the :id of a request path
IdParams == {QInt(i) : i \in 1..MaxTodos} \cup {QText}

\* a request meets at most one fault: (jsonOk, dbOk)
Faults == {<<TRUE, TRUE>>, <<FALSE, TRUE>>, <<TRUE, FALSE>>}

CreateTodo ==
    \E u \in UserIds, input \in CreateBodies, f \in Faults :
        /\ nextId <= MaxTodos
        /\ createTodoHandler(User(u), input, f[1], f[2])

DeleteTodo ==
    \E u \in UserIds, idParam \in IdParams, dbOk \in BOOLEAN :
        deleteTodoHandler(User(u), idParam, dbOk)

UpdateTodoGet ==
    \E u \in UserIds, idParam \in IdParams, input \in UpdateBodies, f \in Faults :
        /\ Cardinality(inflight) < MaxInflight
        /\ updateTodoHandlerGet(User(u), idParam, input, f[1], f[2])

UpdateTodoUpdate ==
    \E req \in inflight, dbOk \in BOOLEAN : updateTodoHandlerUpdate(req, dbOk)

TodoNext == CreateTodo \/ DeleteTodo \/ UpdateTodoGet \/ UpdateTodoUpdate

\* authenticated create, delete and update requests
TodoSpec == Init /\ [][TodoNext]_vars

Query(search, page, pageSize, sort, order) ==
    [search |-> search, page |-> page, page_size |-> pageSize, sort |-> sort,
     order |-> order]

\* query strings of GET /v1/todos
ListQueries ==
    {Query(EmptyText, QEmpty, QEmpty, "", ""),
     Query(TitleA, QEmpty, QInt(1), "due_date", "asc"),
     Query(BlankText, QInt(2), QInt(1), "", ""),
     Query(EmptyText, QText, QEmpty, "title", ""),
     Query(EmptyText, QEmpty, QEmpty, "title", "asc")}

ListCreate ==
    \E u \in UserIds, title \in {TitleA, TitleB} :
        /\ nextId <= MaxTodos
        /\ createTodoHandler(User(u), Body(title), TRUE, TRUE)

ListDelete ==
    \E u \in UserIds, i \in 1..MaxTodos : deleteTodoHandler(User(u), QInt(i), TRUE)

ListCount ==
    \E u \in UserIds, qs \in ListQueries, dbOk \in BOOLEAN :
        /\ Cardinality(inflight) < MaxInflight
        /\ listTodosHandlerCount(User(u), qs, dbOk)

ListPage ==
    \E req \in inflight, dbOk \in BOOLEAN : listTodosHandlerPage(req, dbOk)

ListNext == ListCreate \/ ListDelete \/ ListCount \/ ListPage

\* authenticated list requests, among creations and deletions
ListSpec == Init /\ [][ListNext]_vars

\* the Todo structs handed to the data layer
StoreTodos ==
    {[NoTodo EXCEPT !.ID = i, !.Title = t, !.DueDate = d] :
        i \in 0..MaxTodos, t \in {TitleA, TitleB}, d \in {0, 1}}

StoreInsert ==
    \E u \in UserIds, todo \in StoreTodos, dbOk \in BOOLEAN :
        /\ nextId <= MaxTodos
        /\ todo.ID = 0
        /\ TodosInsert(u, todo, dbOk)

StoreGet ==
    \E u \in UserIds, i \in 0..MaxTodos, dbOk \in BOOLEAN : TodosGet(i, u, dbOk)

StoreDelete ==
    \E u \in UserIds, i \in 0..MaxTodos, dbOk \in BOOLEAN : TodosDelete(i, u, dbOk)

StoreUpdate ==
    \E u \in UserIds, todo \in StoreTodos, dbOk \in BOOLEAN : TodosUpdate(u, todo, dbOk)

StoreNext == StoreInsert \/ StoreGet \/ StoreDelete \/ StoreUpdate

\* the owner-scoped data layer under direct calls
StoreSpec == Init /\ [][StoreNext]_vars

\* JSON bodies of the concurrent updates
RaceBodies ==
    {[NoChange EXCEPT !.Title = Ptr(TitleB)],
     [NoChange EXCEPT !.IsCompleted = Ptr(TRUE), !.DueDate = Ptr(1)]}

RaceCreate ==
    \E u \in UserIds :
        /\ nextId <= MaxRaceTodos
        /\ createTodoHandler(User(u), [Body(TitleA) EXCEPT !.Description = DescB],
                             TRUE, TRUE)

\* the user a todo belongs to
Owns(u, i) == \E r \in todos : r.id = i /\ r.user_id = u

RaceDelete ==
    \E u \in UserIds, i \in 1..MaxRaceTodos :
        /\ Owns(u, i)
        /\ deleteTodoHandler(User(u), QInt(i), TRUE)

RaceGet ==
    \E u \in UserIds, i \in 1..MaxRaceTodos, input \in RaceBodies :
        /\ Owns(u, i)
        /\ Cardinality(inflight) < MaxUpdates
        /\ updateTodoHandlerGet(User(u), QInt(i), input, TRUE, TRUE)

RaceUpdate ==
    \E req \in inflight, dbOk \in BOOLEAN : updateTodoHandlerUpdate(req, dbOk)

RaceNext == RaceCreate \/ RaceDelete \/ RaceGet \/ RaceUpdate

\* update requests of a todo's owner racing each other and deletions
RaceSpec == Init /\ [][RaceNext]_vars

\* Filters that pass ValidateFilters with the lists of listTodosHandler
PageFilters ==
    [Page : 1..MaxPageTodos, PageSize : 1..2,
     Sort : {SortSafeList[i] : i \in 1..Len(SortSafeList)},
     Order : {OrderSafeList[i] : i \in 1..Len(OrderSafeList)},
     SortSafeList : {SortSafeList}, OrderSafeList : {OrderSafeList}]

\* the todos listed: of one user with equal and with different titles and due
\* dates, and one of another user
PageTodos ==
    {<<1, TitleA, 0>>, <<1, TitleB, 0>>, <<1, TitleA, TicksPerSecond>>, <<2, TitleA, 0>>}

PageInsert ==
    \E t \in PageTodos :
        /\ nextId <= MaxPageTodos
        /\ TodosInsert(t[1], [NoTodo EXCEPT !.Title = t[2], !.DueDate = t[3]], TRUE)

PageGetAll ==
    \E u \in UserIds, search \in {EmptyText, TitleA}, f \in PageFilters :
        TodosGetAll(u, search, f, TRUE)

PageNext == PageInsert \/ PageGetAll

\* listings of a table that is written only between them
PageSpec == Init /\ [][PageNext]_vars

-----------------------------------------------------------------------------
(* Specification of the filter functions *)

SamplePages == (-1..MaxSample) \cup {MaxPage, MaxPage + 1}
SamplePageSizes == (-1..MaxSample) \cup {DefaultPageSize, MaxPageSize, MaxPageSize + 1}
SampleSorts == {"", "created_at", "due_date", "title", "drop table"}
SampleOrders == {"asc", "desc", "sideways"}
SampleSafeLists == {<<>>, <<"title">>, SortSafeList}

\* the Filters a request can carry
SampleFilters ==
    [Page : SamplePages, PageSize : SamplePageSizes, Sort : SampleSorts,
     Order : SampleOrders, SortSafeList : SampleSafeLists,
     OrderSafeList : {OrderSafeList}]

SampleKeys == {"page", "sort"}
SampleMessages == {"must be an integer", "must be greater than 0"}

\* validators without an error, with one and with two
SampleValidators ==
    {ValidatorNew,
     AddError(ValidatorNew, "page", "must be an integer"),
     AddError(AddError(ValidatorNew, "page", "must be greater than 0"),
              "sort", "is an invalid sort value")}

\* raw values of page and page_size: absent, numbers in and out of range, not
\* a number
SampleRaw == {QEmpty, QInt(0), QInt(1), QInt(MaxPageSize + 1), QText}

SampleQueries ==
    {Query(EmptyText, page, pageSize, sort, order) :
        page \in SampleRaw, pageSize \in SampleRaw, sort \in {"", "title"},
        order \in {"", "sideways"}}

\* the state before a call: empty stores, and the arguments of the call
FilterInit ==
    /\ now = 0
    /\ tokens = {}
    /\ issued = {}
    /\ todos = {}
    /\ nextId = 1
    /\ inflight = {}
    /\ last \in {FiltersArg(f) : f \in SampleFilters}
          \cup {MetadataArgs(n, p, ps) : n \in 0..MaxRecords, p \in SamplePages,
                                         ps \in {x \in SamplePageSizes : x > 0}}
          \cup {CheckArgs(v, ok, key, message) :
                    v \in SampleValidators, ok \in BOOLEAN, key \in SampleKeys,
                    message \in SampleMessages}
          \cup {QueryArg(qs) : qs \in SampleQueries}

FilterNext ==
    \/ CallValidateFilters
    \/ CallLimitOffset
    \/ CallCalculateMetadata
    \/ CallSortColumn
    \/ CallCheck
    \/ CallReadFilters

\* the pure functions of filters.go applied to sample arguments
FilterSpec == FilterInit /\ [][FilterNext]_vars

-----------------------------------------------------------------------------
(* Properties of the token store (TokenSpec) *)

MiddlewareOp == "protectedRouteMiddleware"

\* the calls of New that returned a token and no error
IssuedOK == {i \in issued : i.err = ErrNil}

\* C1: a token issued by New with ttl > 0 verifies, with its owner as the user,
\* at every time before its expiry, and is answered ErrRecordNotFound at every
\* time after its expiry (whenever the storage answers the query at all).
C1_VerifyUntilExpiry ==
    (last.op = "GetForToken" /\ last.err # ErrBackend) =>
        \A i \in IssuedOK :
            (i.ttl > 0 /\ i.token.Plaintext = last.plaintext) =>
                /\ last.at < i.token.Expiry =>
                      (last.err = ErrNil /\ last.user = User(i.token.UserID))
                /\ last.at > i.token.Expiry => last.err = ErrRecordNotFound

C1_Witness ==
    /\ last.op = "GetForToken"
    /\ last.err = ErrRecordNotFound
    /\ \E i \in IssuedOK : /\ i.ttl > 0
                           /\ i.token.Plaintext = last.plaintext
                           /\ last.at > i.token.Expiry

\* C2: GetForToken succeeds only for a plaintext that New has generated, and the
\* user it returns is the owner that plaintext was issued for.
C2_OnlyIssuedOwner ==
    (last.op = "GetForToken" /\ last.err = ErrNil) =>
        /\ \E i \in issued : i.token.Plaintext = last.plaintext
        /\ \A i \in issued : i.token.Plaintext = last.plaintext =>
                                last.user = User(i.token.UserID)

C2_Witness ==
    /\ last.op = "GetForToken"
    /\ last.err = ErrNil
    /\ \E i, j \in IssuedOK : /\ i.token.UserID # j.token.UserID
                              /\ i.token.Expiry > now
                              /\ j.token.Expiry > now
                              /\ i.token.Plaintext = last.plaintext

\* C6: a stored token row has the columns hash, user_id, expiry and scope and
\* nothing else, its hash is the digest of an issued plaintext and is no
\* plaintext itself; the plaintext is in the token New returns.
C6_OnlyHashPersisted ==
    /\ \A row \in tokens :
          /\ DOMAIN row = {"hash", "user_id", "expiry", "scope"}
          /\ row.user_id \in UserIds
          /\ row.expiry \in Nat
          /\ row.scope \in Scopes
          /\ \E i \in IssuedOK : row.hash = Sha256(i.token.Plaintext)
          /\ \A i \in issued : row.hash # i.token.Plaintext
    /\ (last.op = "New" /\ last.err = ErrNil) =>
          /\ last.token.Plaintext # <<>>
          /\ \E row \in tokens : row.hash = Sha256(last.token.Plaintext)

C6_Witness ==
    /\ last.op = "New"
    /\ last.err = ErrNil
    /\ Cardinality(tokens) = 2

-----------------------------------------------------------------------------
(* Properties of the auth middleware (MiddlewareSpec) *)

SpacePositions(h) == {i \in 1..Len(h) : h[i] = SP}

\* h is `Bearer`, one space, and a non-empty token without a space
WellFormedBearer(h) ==
    /\ Cardinality(SpacePositions(h)) = 1
    /\ Len(h) >= 3
    /\ h[1] = BearerWord
    /\ h[2] = SP

PresentedToken(h) == SubSeq(h, 3, Len(h))

\* C3: next is called only when GetForToken succeeded for the presented bearer
\* token, the user bound into the context is the user GetForToken returned (the
\* owner of that unexpired token), and a rejection never calls next.
C3_ForwardOnlyVerified ==
    last.op = MiddlewareOp =>
        /\ last.nextCalled =>
              /\ WellFormedBearer(last.header)
              /\ last.lookup.err = ErrNil
              /\ last.ctxUser = last.lookup.user
              /\ \E i \in IssuedOK : /\ i.token.Plaintext = PresentedToken(last.header)
                                     /\ i.token.Expiry > now
                                     /\ last.ctxUser = User(i.token.UserID)
        /\ last.response # NoResponse => ~last.nextCalled
        /\ ~last.nextCalled => last.response # NoResponse

C3_Witness ==
    /\ last.op = MiddlewareOp
    /\ last.nextCalled
    /\ last.ctxUser = User(2)
    /\ Cardinality(tokens) = 2

\* C4: a request whose Authorization header is absent, is not two parts divided
\* by one space, has a first part other than Bearer or has an empty token is
\* rejected with the one InvalidAuthenticationHeader response.
C4_MalformedRejected ==
    (last.op = MiddlewareOp /\ ~WellFormedBearer(last.header)) =>
        /\ last.response = InvalidAuthenticationHeaderResponse
        /\ ~last.nextCalled

\* a token that verifies, presented under another scheme
C4_Witness ==
    /\ last.op = MiddlewareOp
    /\ last.response.status = 401
    /\ \E i \in IssuedOK : /\ i.token.Expiry > now
                           /\ last.header = i.token.Plaintext \o <<SP>> \o i.token.Plaintext

\* C5: when GetForToken fails with ErrRecordNotFound (the token was never issued,
\* or it has expired) the response is InvalidAuthenticationHeader, when it fails
\* otherwise the response is the server error, and next is not called.
C5_LookupFailure ==
    last.op = MiddlewareOp =>
        /\ (last.lookups = 1 /\ last.lookup.err # ErrNil) =>
              /\ ~last.nextCalled
              /\ last.lookup.err = ErrRecordNotFound =>
                    last.response = InvalidAuthenticationHeaderResponse
              /\ last.lookup.err # ErrRecordNotFound =>
                    last.response = ServerErrorResponse
        /\ ( /\ WellFormedBearer(last.header)
             /\ last.lookup.err # ErrBackend
             /\ ~\E i \in IssuedOK : /\ i.token.Plaintext = PresentedToken(last.header)
                                     /\ i.token.Expiry > now )
           => /\ last.lookup.err = ErrRecordNotFound
              /\ last.response = InvalidAuthenticationHeaderResponse

\* the cause is an expired token
C5_Witness ==
    /\ last.op = MiddlewareOp
    /\ last.response = InvalidAuthenticationHeaderResponse
    /\ last.lookups = 1
    /\ \E i \in IssuedOK : /\ i.token.Plaintext = PresentedToken(last.header)
                           /\ WellFormedBearer(last.header)
                           /\ i.ttl > 0
                           /\ i.token.Expiry <= now

-----------------------------------------------------------------------------
(* Properties of the list endpoint (ListSpec) *)

\* the rows of a user that a search text selects: all of them for '', and
\* otherwise those whose title or description holds every word of the search
OwnMatching(user, search) ==
    {r \in todos :
        /\ r.user_id = user
        /\ \/ search.bytes = 0
           \/ /\ search.words # {}
              /\ \/ search.words \subseteq r.title.words
                 \/ search.words \subseteq r.description.words}

\* C7: a list request of user A counts only A's matching todos (the count
\* query) and returns only A's matching todos (the page query)
C7_ListOwnerScoped ==
    /\ last.op = "listTodosHandler.count"
          => last.totalRecords = Cardinality(OwnMatching(last.user, last.search))
    /\ (last.op = "listTodosHandler.page" /\ last.response.status = 200)
          => \A i \in 1..Len(last.response.body.todos) :
                 \E r \in OwnMatching(last.user, last.search) :
                     TodoOf(r) = last.response.body.todos[i]

\* a page with an item, while another user has a todo the search selects too
C7_Witness ==
    /\ last.op = "listTodosHandler.page"
    /\ last.response.status = 200
    /\ Len(last.response.body.todos) >= 1
    /\ \E u \in UserIds \ {last.user} : OwnMatching(u, last.search) # {}

-----------------------------------------------------------------------------
(* Properties of the owner-scoped data layer (StoreSpec) *)

\* C9: TodosModel.Update for an id that has no row of the calling user (the
\* row is another user's, was deleted, or never existed) modifies nothing and
\* returns ErrEditConflict, or the storage's own error when the storage fails
C9_UpdateConflict ==
    [][(/\ last'.op = "Update"
        /\ ~\E r \in todos : r.id = last'.todo.ID /\ r.user_id = last'.userId)
       => /\ todos' = todos
          /\ last'.err \in {ErrEditConflict, ErrBackend}]_vars

\* an edit conflict on the id of another user's todo
C9_Witness ==
    /\ last.op = "Update"
    /\ last.err = ErrEditConflict
    /\ \E r \in todos : r.id = last.todo.ID /\ r.user_id # last.userId

-----------------------------------------------------------------------------
(* Properties of the create, delete and update endpoints (TodoSpec) *)

\* C8: a delete or update request of user B for the id of a todo of user A
\* leaves the todo unchanged and is answered 404 (or 500 when the storage fails)
C8_CrossUserUntouched ==
    [][\A r \in todos :
          (/\ last'.op \in {"deleteTodoHandler", "updateTodoHandler"}
           /\ last'.id = r.id
           /\ last'.user # r.user_id
           /\ last'.response.status # ServerErrorResponse.status)
          => /\ r \in todos'
             /\ last'.response.status = NotFoundResponse.status]_vars

\* C10: every stored todo has a non-empty title of at most 500 characters, and
\* a create request answered 422 has stored nothing
C10_StoredTitlesValid ==
    /\ \A r \in todos : r.title.bytes # 0 /\ r.title.runes <= MaxTitleLen
    /\ (last.op = "createTodoHandler" /\ last.response.status = 422)
          => ~\E r \in todos : r.id = last.id

-----------------------------------------------------------------------------
(* Properties of the filter functions (FilterSpec) *)

Elements(list) == {list[i] : i \in 1..Len(list)}

\* C11: ValidateFilters records an error for page exactly when page is outside
\* 1..10,000,000, for page_size exactly when it is outside 1..100, for sort and
\* for order exactly when the value is outside its allow-list: every invalid
\* field has its entry at once, and the map is empty iff all four are valid
C11_EveryInvalidField ==
    last.op = "ValidateFilters"
       => LET f == last.filters
              keys == DOMAIN last.errors
          IN /\ keys \subseteq {"page", "page_size", "sort", "order"}
             /\ "page" \in keys <=> ~(f.Page >= 1 /\ f.Page <= 10000000)
             /\ "page_size" \in keys <=> ~(f.PageSize >= 1 /\ f.PageSize <= 100)
             /\ "sort" \in keys <=> f.Sort \notin Elements(f.SortSafeList)
             /\ "order" \in keys <=> f.Order \notin {"asc", "desc"}

\* page=0, page_size=101, sort "drop table" and order "sideways" in one input
C11_Witness ==
    /\ last.op = "ValidateFilters"
    /\ last.filters.Page = 0
    /\ last.filters.PageSize = 101
    /\ last.filters.Sort = "drop table"
    /\ last.filters.Order = "sideways"
    /\ DOMAIN last.errors = {"page", "page_size", "sort", "order"}

\* C12: for 1 <= page <= 10,000,000 and 1 <= pageSize <= 100, limit is
\* pageSize and offset is (page-1)*pageSize, non-negative and a multiple of
\* pageSize; offset(1,10) = 0 and offset(3,10) = 20
C12_LimitOffset ==
    (/\ last.op = "limit/offset"
     /\ last.filters.Page >= 1 /\ last.filters.Page <= 10000000
     /\ last.filters.PageSize >= 1 /\ last.filters.PageSize <= 100)
       => LET page == last.filters.Page
              pageSize == last.filters.PageSize
          IN /\ last.limit = pageSize
             /\ last.offset = (page - 1) * pageSize
             /\ last.offset >= 0
             /\ last.offset % pageSize = 0
             /\ (page = 1 /\ pageSize = 10) => last.offset = 0
             /\ (page = 3 /\ pageSize = 10) => last.offset = 20

\* the third page of ten
C12_Witness ==
    /\ last.op = "limit/offset"
    /\ last.filters.Page = 3
    /\ last.filters.PageSize = 10
    /\ last.limit = 10
    /\ last.offset = 20

\* C13: for totalRecords >= 0 and pageSize in 1..100, calculateMetadata returns
\* firstPage 1, currentPage page, totalRecords unchanged and lastPage the least
\* number of pages of pageSize that hold totalRecords records: 0 for no
\* record, 3 for 25 records in pages of 10
C13_LastPageCeiling ==
    (/\ last.op = "calculateMetadata"
     /\ last.totalRecords >= 0
     /\ last.pageSize >= 1 /\ last.pageSize <= 100)
       => LET m == last.metadata IN
          /\ m.FirstPage = 1
          /\ m.CurrentPage = last.page
          /\ m.PageSize = last.pageSize
          /\ m.TotalRecords = last.totalRecords
          /\ m.LastPage * last.pageSize >= last.totalRecords
          /\ (m.LastPage - 1) * last.pageSize < last.totalRecords
          /\ last.totalRecords = 0 => m.LastPage = 0
          /\ (last.totalRecords = 25 /\ last.pageSize = 10) => m.LastPage = 3

\* 25 records in pages of 10
C13_Witness ==
    /\ last.op = "calculateMetadata"
    /\ last.totalRecords = 25
    /\ last.pageSize = 10
    /\ last.metadata.LastPage = 3

\* C14: sortColumn returns f.Sort when f.Sort is in f.SortSafeList and panics
\* otherwise: what it returns is always in the list
C14_SortColumnInList ==
    last.op = "sortColumn"
       => LET f == last.filters IN
          /\ f.Sort \in Elements(f.SortSafeList)
                => ~last.panicked /\ last.column = f.Sort
          /\ f.Sort \notin Elements(f.SortSafeList) => last.panicked
          /\ ~last.panicked => last.column \in Elements(f.SortSafeList)

\* a value outside a non-empty list
C14_Witness ==
    /\ last.op = "sortColumn"
    /\ last.filters.Sort = "drop table"
    /\ last.filters.SortSafeList = SortSafeList
    /\ last.panicked

-----------------------------------------------------------------------------
(* Properties of the round trip through the data layer (StoreSpec) *)

\* C15: Get(id, owner) right after Insert(owner, todo) assigned id returns the
\* inserted title, description, due date and completion flag, and Get with
\* that id and another owner returns ErrRecordNotFound (the storage answering)
C15_InsertGetRoundTrip ==
    [][(/\ last.op = "Insert"
        /\ last.err = ErrNil
        /\ last'.op = "Get"
        /\ last'.id = last.todo.ID
        /\ last'.err # ErrBackend)
       => IF last'.userId = last.userId
          THEN /\ last'.err = ErrNil
               /\ last'.todo.Title = last.todo.Title
               /\ last'.todo.Description = last.todo.Description
               /\ last'.todo.DueDate = last.todo.DueDate
               /\ last'.todo.IsCompleted = last.todo.IsCompleted
          ELSE last'.err = ErrRecordNotFound]_vars

-----------------------------------------------------------------------------
(* Properties of the update endpoint under races (RaceSpec) *)

\* an update request that reached its UPDATE statement
UpdateWritten == last.op = "updateTodoHandler" /\ "stored" \in DOMAIN last

\* the row of the updated id after the request
RowNow == {r \in todos : r.id = last.id}

\* C16: a successful update whose row was not written between its read and
\* its write leaves every field absent from the body as stored, sets the
\* fields present (a due date to the second), and keeps id, created_at and owner
C16_PartialUpdate ==
    (UpdateWritten /\ last.response.status = 200)
       => \A r \in last.stored :
             TodoOf(r) = last.fetched
                => \E w \in RowNow :
                      /\ RowNow = {w}
                      /\ w.created_at = r.created_at
                      /\ w.user_id = r.user_id
                      /\ w.title = IF last.input.Title = Nil THEN r.title
                                   ELSE Deref(last.input.Title)
                      /\ w.description = IF last.input.Description = Nil
                                         THEN r.description
                                         ELSE Deref(last.input.Description)
                      /\ w.due_date = IF last.input.DueDate = Nil THEN r.due_date
                                      ELSE Timestamp0(Deref(last.input.DueDate))
                      /\ w.is_completed = IF last.input.IsCompleted = Nil
                                          THEN r.is_completed
                                          ELSE Deref(last.input.IsCompleted)

\* a body with the title only changed the title of a todo that had a
\* completion flag and a due date set
C16_Witness ==
    /\ UpdateWritten
    /\ last.response.status = 200
    /\ last.input.Title # Nil
    /\ last.input.IsCompleted = Nil
    /\ \E r \in last.stored, w \in RowNow :
          /\ TodoOf(r) = last.fetched
          /\ r.is_completed
          /\ w.is_completed
          /\ w.description = DescB
          /\ w.title # r.title

\* C19: an update that read its todo and finds no row at its write (the todo
\* was deleted in between) is answered 409, the storage answering, and the
\* todo stays deleted
C19_LostRaceIsConflict ==
    (UpdateWritten /\ last.stored = {} /\ last.err # ErrBackend)
       => /\ last.response.status = 409
          /\ RowNow = {}

\* the conflict, for a todo the request had read
C19_Witness ==
    /\ UpdateWritten
    /\ last.stored = {}
    /\ last.fetched.ID = last.id
    /\ last.response = EditConflictResponse
    /\ RowNow = {}

\* C20: an update of the owner that finds its row at the write succeeds, the
\* storage answering, whatever was written since its read, and the row then
\* holds the four fields of the request's snapshot
C20_LastWriteWins ==
    (UpdateWritten /\ last.err # ErrBackend)
       => \A r \in last.stored :
             r.user_id = last.user
                => /\ last.response.status = 200
                   /\ \E w \in RowNow :
                         /\ w.title = last.todo.Title
                         /\ w.description = last.todo.Description
                         /\ w.due_date = Timestamp0(last.todo.DueDate)
                         /\ w.is_completed = last.todo.IsCompleted

\* the second of two successful interleaved updates: its body has no title,
\* and it puts back the title it had read over the one written in between
C20_Witness ==
    /\ UpdateWritten
    /\ last.response.status = 200
    /\ last.input.Title = Nil
    /\ \E r \in last.stored, w \in RowNow :
          /\ r.user_id = last.user
          /\ r.title # last.fetched.Title
          /\ w.title = last.fetched.Title

-----------------------------------------------------------------------------
(* Properties of the router (RouterSpec) *)

TodoHandlers ==
    {"createTodoHandler", "listTodosHandler", "deleteTodoHandler", "updateTodoHandler"}

\* C17: a todo handler runs only for a request with a well-formed bearer
\* header whose token was issued and has not expired, and for that token's
\* owner; no other handler runs on the paths under /v1/todos; GET
\* /v1/healthcheck, POST /v1/users and POST /v1/auth/sign-in run their handler
\* whatever the header
C17_TodosBehindAuth ==
    last.op = "ServeHTTP"
       => /\ last.ran \in TodoHandlers
                => /\ WellFormedBearer(last.header)
                   /\ \E i \in IssuedOK :
                         /\ i.token.Plaintext = PresentedToken(last.header)
                         /\ i.token.Expiry > now
                         /\ last.user = User(i.token.UserID)
          /\ last.path \in {"/v1/todos", "/v1/todos/:id"}
                => last.ran \in TodoHandlers \cup {"none", "methodNotAllowedResponse"}
          /\ (last.path \in {"/v1/todos", "/v1/todos/:id"}
              /\ last.ran \in TodoHandlers \cup {"none"})
                => <<last.method, last.path>> \in
                      {<<"POST", "/v1/todos">>, <<"GET", "/v1/todos">>,
                       <<"PUT", "/v1/todos/:id">>, <<"DELETE", "/v1/todos/:id">>}
          /\ (last.method = "GET" /\ last.path = "/v1/healthcheck")
                => last.ran = "healthcheckHandler"
          /\ (last.method = "POST" /\ last.path = "/v1/users")
                => last.ran = "createUserHandler"
          /\ (last.method = "POST" /\ last.path = "/v1/auth/sign-in")
                => last.ran = "createAuthenticationTokenHandler"

\* a delete request that ran its handler, for the token of user 2
C17_Witness ==
    /\ last.op = "ServeHTTP"
    /\ last.ran = "deleteTodoHandler"
    /\ last.user = User(2)

-----------------------------------------------------------------------------
(* Properties of the list response (ListSpec) *)

\* C18: the body of a successful list response has exactly the keys `todos`
\* and `metadata`
C18_ListEnvelope ==
    (last.op = "listTodosHandler.page" /\ last.response.status = 200)
       => DOMAIN last.response.body = {"todos", "metadata"}

-----------------------------------------------------------------------------
(* Properties of the storage lookups of the middleware (MiddlewareSpec) *)

\* C21: a request handled by the auth middleware calls GetForToken at most
\* once, with the presented token, and does not call it at all when the
\* Authorization header is missing, is not of the form `Bearer <token>` or
\* carries an empty token.
C21_LookupAtMostOnce ==
    last.op = MiddlewareOp =>
        /\ last.lookups \in {0, 1}
        /\ ~WellFormedBearer(last.header) =>
              /\ last.lookups = 0
              /\ last.lookup = NoLookup
        /\ last.lookups = 1 =>
              last.lookup \in GetForToken(PresentedToken(last.header))

\* `Bearer ` with an empty token, while a token is stored
C21_Witness ==
    /\ last.op = MiddlewareOp
    /\ last.header = <<BearerWord, SP>>
    /\ last.lookups = 0
    /\ tokens # {}

-----------------------------------------------------------------------------
(* Properties of the life of a token row (TokenSpec) *)

\* the token strings that verify at the current time
Verifying == {a \in TokenAtoms : GetForTokenRows(<<a>>, now) # {}}

\* C22: no step mutates or removes a stored token row: GetForToken leaves the
\* token store unchanged, a successful New adds exactly one row, which was not
\* there, and leaves every other row (the owner's earlier tokens too) as it
\* was, and a token that verified stops verifying only in a step in which
\* time passes.
C22_TokenRowsKept ==
    [][ /\ tokens \subseteq tokens'
        /\ last'.op = "GetForToken" => tokens' = tokens
        /\ (last'.op = "New" /\ last'.err = ErrNil) =>
              /\ TokenRow(last'.token) \notin tokens
              /\ tokens' = tokens \cup {TokenRow(last'.token)}
        /\ Verifying \ Verifying' # {} => now' > now ]_vars

\* a second token of an owner, stored beside that owner's first
C22_Witness ==
    /\ last.op = "New"
    /\ last.err = ErrNil
    /\ Cardinality({t \in tokens : t.user_id = last.token.UserID}) = 2

\* the stored rows of a token string that have not expired at time `at`,
\* whatever their scope
Unexpired(tokenPlaintext, at) ==
    {t \in tokens : t.hash = Sha256(tokenPlaintext) /\ t.expiry > at}

\* C23: GetForToken accepts a stored, unexpired token whatever its scope: when
\* the storage answers, the call succeeds with the owner of the row iff a row
\* of any scope holds the hash of the token and has not expired, so tokens
\* that differ only in scope verify alike and scope never causes a rejection.
C23_ScopeIgnored ==
    (last.op = "GetForToken" /\ last.err # ErrBackend) =>
        /\ \A t \in Unexpired(last.plaintext, last.at) :
              /\ last.err = ErrNil
              /\ last.user = User(t.user_id)
        /\ Unexpired(last.plaintext, last.at) = {} => last.err = ErrRecordNotFound

\* a token of another scope than Authentication verifies
C23_Witness ==
    /\ last.op = "GetForToken"
    /\ last.err = ErrNil
    /\ \E t \in Unexpired(last.plaintext, last.at) : t.scope # ScopeAuthentication
    /\ \E t \in tokens : t.scope = ScopeAuthentication

-----------------------------------------------------------------------------
(* Properties of the validation of a list request (ListSpec) *)

\* the filters pass every check of ValidateFilters, and their sort value is
\* in the allow-list of the handler
SafeFilters(f) ==
    /\ Valid(ValidateFilters(ValidatorNew, f))
    /\ f.Sort \in Elements(SortSafeList)
    /\ sortColumn(f) = f.Sort

\* C24: a list request sends a query to the storage only if ValidateFilters
\* recorded no error, the sort column given to the page query is then in the
\* sort allow-list of the handler, so that sortColumn does not panic, and a
\* request that fails the validation sends no query and is answered 422.
C24_ValidatedBeforeQuery ==
    /\ \A req \in inflight : req.op = "listTodosHandler" => SafeFilters(req.filters)
    /\ (last.op \in {"listTodosHandler", "listTodosHandler.count",
                     "listTodosHandler.page"}) =>
          /\ last.queries > 0 => SafeFilters(last.filters)
          /\ ~SafeFilters(last.filters) =>
                /\ last.queries = 0
                /\ last.response.status = 422
    /\ last.op = "listTodosHandler.page" =>
          /\ last.queries = 2
          /\ last.response.status # NoResponse.status

\* a request rejected for its sort value alone: no query is sent
C24_Witness ==
    /\ last.op = "listTodosHandler"
    /\ last.queries = 0
    /\ DOMAIN last.response.body = {"sort"}
    /\ todos # {}

-----------------------------------------------------------------------------
(* Properties of the pages of a listing (PageSpec) *)

\* for a listing sorted by one of `columns`: every page 1..lastPage of the
\* same owner, search text, sort, order and page size is returned, no todo is
\* on two pages or twice on one, and the pages together hold the owner's
\* matching todos, which are all of the owner's todos for the empty search
PagesPartition(columns) ==
    (last.op = "GetAll" /\ last.filters.Sort \in columns) =>
        LET f == last.filters
            matching == {TodoOf(r) : r \in OwnMatching(last.userId, last.search)}
            res(p) == GetAll(last.userId, last.search, [f EXCEPT !.Page = p], TRUE)
            lastPage == GoDiv(Cardinality(matching) + f.PageSize - 1, f.PageSize)
            items(p) == Elements(res(p).todos)
        IN /\ last.err = ErrNil
           /\ last.todos = res(f.Page).todos
           /\ last.metadata.LastPage = lastPage
           /\ \A p \in 1..lastPage :
                 /\ res(p).err = ErrNil
                 /\ Cardinality(items(p)) = Len(res(p).todos)
           /\ \A p, q \in 1..lastPage : p # q => items(p) \cap items(q) = {}
           /\ UNION {items(p) : p \in 1..lastPage} = matching
           /\ last.search = EmptyText =>
                 matching = {TodoOf(r) : r \in {t \in todos : t.user_id = last.userId}}

\* C25: for a fixed set of stored todos and any validated sort column, order
\* and page size, the pages 1..lastPage returned by GetAll for one owner and
\* one search text are pairwise disjoint and together contain every matching
\* todo of that owner exactly once, also when todos share the sort-key value;
\* with the empty search text every todo of the owner matches.
C25_PagesPartition == PagesPartition(Elements(SortSafeList))

-----------------------------------------------------------------------------
(* Properties of a failed issuance (TokenSpec) *)

\* the calls of New that generated a token and failed to store it
IssuedFailed == {i \in issued : i.err # ErrNil}

\* C26: when the storage write of TokensModel.New fails, or the random source
\* fails, the caller receives an error and the step stores no token row; New
\* returns no error only with the row stored; and the plaintext generated in
\* a failed call has no row and does not verify at any later time.
C26_FailedIssueStoresNothing ==
    [][ /\ (last'.op = "New" /\ last'.err # ErrNil) => tokens' = tokens
        /\ (last'.op = "New" /\ last'.err = ErrNil) => TokenRow(last'.token) \in tokens'
        /\ \A i \in IssuedFailed' :
              /\ \A t \in tokens' : t.hash # i.token.Hash
              /\ GetForTokenRows(i.token.Plaintext, now)' = {}
        /\ (last'.op = "GetForToken" /\
               \E i \in IssuedFailed' : i.token.Plaintext = last'.plaintext)
              => last'.err # ErrNil ]_vars

\* the plaintext of a failed call is presented at a time before the expiry it
\* was given, while another token is stored, and is not found
C26_Witness ==
    /\ last.op = "GetForToken"
    /\ last.err = ErrRecordNotFound
    /\ tokens # {}
    /\ \E i \in IssuedFailed : /\ i.token.Plaintext = last.plaintext
                                /\ i.token.Expiry > now

-----------------------------------------------------------------------------
(* Properties of the two queries of a listing (ListSpec) *)

\* C27: in every result of GetAll, also when another request inserts or
\* deletes a todo of the same owner between the count query and the page
\* query, totalRecords is the number of the owner's matching todos at the
\* moment the page rows were read, and the number of items returned is
\* min(pageSize, max(0, totalRecords - offset)).
C27_MetadataConsistent ==
    (last.op = "listTodosHandler.page" /\ last.response.status = 200) =>
        LET metadata == last.response.body.metada
            items == last.response.body.todos
            rest == metadata.TotalRecords - offset(last.filters)
            expected == IF rest < 0 THEN 0
                        ELSE IF rest < limit(last.filters) THEN rest
                        ELSE limit(last.filters)
        IN /\ metadata.TotalRecords = Cardinality(OwnMatching(last.user, last.search))
           /\ Len(items) = expected

-----------------------------------------------------------------------------
(* Properties of the Validator (FilterSpec) *)

\* the parameters of a query string that are present and not an integer
NotInteger(qs) == {k \in {"page", "page_size"} : qs[k].kind = "text"}

\* C28: the Validator keeps the first message recorded for a key: AddError,
\* or a failed Check, on a key already in the error map leaves the map as it
\* was, and on a new key adds that one entry; Valid() is false iff a check
\* has failed; and so a `page` or `page_size` that is not an integer has the
\* message `must be an integer`, not the range message of the zero value that
\* readInt returns.
C28_FirstMessageKept ==
    /\ last.op = "Check" =>
          /\ last.key \in DOMAIN last.v => last.added = last.v
          /\ last.key \notin DOMAIN last.v =>
                /\ DOMAIN last.added = DOMAIN last.v \cup {last.key}
                /\ last.added[last.key] = last.message
                /\ \A k \in DOMAIN last.v : last.added[k] = last.v[k]
          /\ last.errors = IF last.ok THEN last.v ELSE last.added
          /\ ~last.valid <=> (DOMAIN last.v # {} \/ ~last.ok)
    /\ last.op = "ReadFilters" =>
          /\ \A k \in NotInteger(last.qs) :
                /\ k \in DOMAIN last.errors
                /\ last.errors[k] = "must be an integer"
          /\ \A k \in DOMAIN last.parsed : last.errors[k] = last.parsed[k]
          /\ last.valid <=>
                /\ NotInteger(last.qs) = {}
                /\ last.filters.Page \in 1..MaxPage
                /\ last.filters.PageSize \in 1..MaxPageSize
                /\ last.filters.Sort \in Elements(SortSafeList)
                /\ last.filters.Order \in Elements(OrderSafeList)

\* page and page_size are both not integers: readInt returned 0 for each,
\* which fails the range checks, and both messages are those of readInt
C28_Witness ==
    /\ last.op = "ReadFilters"
    /\ NotInteger(last.qs) = {"page", "page_size"}
    /\ last.filters.Page = 0
    /\ last.filters.PageSize = 0
    /\ DOMAIN last.errors = {"page", "page_size", "sort"}
    /\ last.errors["page_size"] = "must be an integer"

====
